---- MODULE Spec2Model ----
(***************************************************************************)
(* Model of src/app.py: the bootstrap of the Flask e-commerce demo         *)
(* (ConfigValidator.validate, DatabaseConnection, the boot timestamp,      *)
(* app.run) and its request pipeline (before_request, require_api_key,     *)
(* the four view functions, the two error handlers, after_request).        *)
(*                                                                         *)
(* Python values are written as follows.  A dict is a function whose       *)
(* domain is its set of keys; None is the string None_, which no modelled  *)
(* string value equals; a wall-clock reading is a number 0..MaxClock, and  *)
(* successive readings never decrease.  The log is not kept, except for    *)
(* the response time after_request reports.                                *)
(***************************************************************************)
EXTENDS Integers, Sequences, FiniteSets, TLC

VARIABLES
    run_as,         \* __name__ of the module: "__main__" or "app" (imported)
    proc,           \* position of the process in the bootstrap
    env,            \* what os.getenv returned for the variables read so far
    config,         \* the dict ConfigValidator.validate returned
    startup_error,  \* the exception that ended the bootstrap, if any
    validate_calls, \* how often ConfigValidator.validate was called
    db,             \* the DatabaseConnection object, once constructed
    app_config,     \* app.config, restricted to the key 'start_time'
    port_bound,     \* app.run has bound 0.0.0.0:3000
    exit_code,      \* argument of sys.exit, once called
    clock,          \* the latest wall-clock reading
    pc,             \* per worker: position in Flask's full_dispatch_request
    req,            \* per worker: the request being handled
    g,              \* per worker: flask.g of the request's context
    fault,          \* per worker: the exception raised while handling
    resp,           \* per worker: the response of the request
    runs,           \* per worker: how often each stage ran for this request
    durations       \* per worker: the response times after_request logged

vars == <<run_as, proc, env, config, startup_error, validate_calls, db,
          app_config, port_bound, exit_code, clock, pc, req, g, fault, resp,
          runs, durations>>

bootVars == <<run_as, proc, env, config, startup_error, validate_calls, db,
              app_config, port_bound, exit_code>>

(***************************************************************************)
(* Bounds                                                                  *)
(***************************************************************************)
MaxClock == 2

\* Concurrently handled requests (threads of the dispatcher).
Workers == {"w1", "w2"}

(***************************************************************************)
(* Python values                                                           *)
(***************************************************************************)
None_ == "None"

EmptyDict == [k \in {} |-> None_]

\* bool(v) of an Optional[str]
Truthy(v) == v # None_ /\ v # ""

Range(s) == {s[i] : i \in DOMAIN s}

(***************************************************************************)
(* ConfigValidator                                                         *)
(***************************************************************************)
REQUIRED_VARS == <<"DATABASE_URL", "SECRET_KEY", "API_KEY", "REDIS_URL">>

\* What os.getenv may return for a variable: unset, empty, or a value.
EnvValues == {None_, "", "redis://localhost:6379"}

Environments == [Range(REQUIRED_VARS) -> EnvValues]

\* `if value:` of the loop body
IsSetNoneOnly(value) == value # None_

IsSet(value) == Truthy(value)

\* The for loop of validate from position i on, with the config and the
\* missing_vars built so far.
RECURSIVE validate_loop(_, _, _, _)
validate_loop(e, i, cfg, missing_vars) ==
    IF i > Len(REQUIRED_VARS)
    THEN [config |-> cfg, missing_vars |-> missing_vars]
    ELSE LET var == REQUIRED_VARS[i]
             value == e[var]
         IN  IF IsSet(value)
             THEN validate_loop(e, i + 1, cfg @@ (var :> value), missing_vars)
             ELSE validate_loop(e, i + 1, cfg, Append(missing_vars, var))

\* A validate that logs the missing variables and returns what it found.
validate_returns_partial(e) ==
    [raised |-> FALSE, error |-> [class |-> "none", missing |-> <<>>],
     config |-> validate_loop(e, 1, EmptyDict, <<>>).config]

\* ConfigValidator.validate() in environment e: the dict it returns, or the
\* KeyError it raises (whose message joins missing_vars).
validate(e) ==
    LET r == validate_loop(e, 1, EmptyDict, <<>>)
    IN  IF r.missing_vars # <<>>
        THEN [raised |-> TRUE,
              error |-> [class |-> "KeyError", missing |-> r.missing_vars],
              config |-> EmptyDict]
        ELSE [raised |-> FALSE,
              error |-> [class |-> "none", missing |-> <<>>],
              config |-> r.config]

NoError == [class |-> "none", missing |-> <<>>]

(***************************************************************************)
(* Requests and responses                                                  *)
(***************************************************************************)
Paths == {"/health", "/", "/api/products", "/api/orders", "/api/users"}

Methods == {"GET", "POST"}

\* request.headers.get('X-API-Key'): absent, empty, or some value
ApiKeys == {None_, "", "any-key"}

required_fields == <<"product_id", "quantity", "customer_email">>

\* The request body as request.get_json() sees it: bytes that do not parse
\* ("malformed", which includes an empty body), a JSON value that is no
\* container ("null": null, a number, true, false), or a JSON object with
\* the given keys among the order fields.
Bodies ==
    {[kind |-> "malformed", members |-> {}], [kind |-> "null", members |-> {}]}
    \cup {[kind |-> "object", members |-> m] : m \in SUBSET Range(required_fields)}

\* is_json: the Content-Type is application/json
Inputs == [method : Methods, path : Paths, api_key : ApiKeys,
           is_json : BOOLEAN, body : Bodies]

NoRequest == [method |-> "", path |-> "", api_key |-> None_,
              is_json |-> FALSE, body |-> [kind |-> "malformed", members |-> {}]]

NoResponse == [status |-> 0, body |-> EmptyDict]

NoFault == [class |-> "none", http |-> FALSE, code |-> 0, name |-> "",
            description |-> ""]

(***************************************************************************)
(* What a stage of the pipeline yields: a response or a raised exception,  *)
(* and whether the view function behind the route was entered.             *)
(***************************************************************************)
Returned(status, body, called) ==
    [resp |-> [status |-> status, body |-> body], fault |-> NoFault,
     view_called |-> called]

Raised(e, called) ==
    [resp |-> NoResponse, fault |-> e, view_called |-> called]

\* werkzeug.exceptions raised by Flask for this application
BadRequest ==
    [class |-> "BadRequest", http |-> TRUE, code |-> 400, name |-> "Bad Request",
     description |-> "The browser (or proxy) sent a request that this server could not understand."]

NotFound ==
    [class |-> "NotFound", http |-> TRUE, code |-> 404, name |-> "Not Found",
     description |-> "The requested URL was not found on the server."]

MethodNotAllowed ==
    [class |-> "MethodNotAllowed", http |-> TRUE, code |-> 405,
     name |-> "Method Not Allowed",
     description |-> "The method is not allowed for the requested URL."]

UnsupportedMediaType ==
    [class |-> "UnsupportedMediaType", http |-> TRUE, code |-> 415,
     name |-> "Unsupported Media Type",
     description |-> "Did not attempt to load JSON data because the request Content-Type was not 'application/json'."]

\* `field not in data` on a value that is no container
TypeError ==
    [class |-> "TypeError", http |-> FALSE, code |-> 0, name |-> "TypeError",
     description |-> "argument of type 'NoneType' is not iterable"]

\* What Flask's handle_exception makes of an exception that escapes
\* full_dispatch_request
InternalServerError ==
    [class |-> "InternalServerError", http |-> TRUE, code |-> 500,
     name |-> "Internal Server Error",
     description |-> "The server encountered an internal error and was unable to complete your request."]

\* g.start_time read before it was set
AttributeError ==
    [class |-> "AttributeError", http |-> FALSE, code |-> 0,
     name |-> "AttributeError", description |-> "start_time"]

\* request.get_json(): the parsed body, or the exception Flask raises.
get_json(r) ==
    IF ~r.is_json THEN [raised |-> TRUE, error |-> UnsupportedMediaType, data |-> r.body]
    ELSE IF r.body.kind = "malformed"
         THEN [raised |-> TRUE, error |-> BadRequest, data |-> r.body]
         ELSE [raised |-> FALSE, error |-> NoFault, data |-> r.body]

(***************************************************************************)
(* Middleware                                                              *)
(***************************************************************************)
\* A before_request that records the start time only after its logging.
before_request_late_start(r, t) ==
    IF r.is_json /\ get_json(r).raised
    THEN [g |-> EmptyDict, fault |-> get_json(r).error]
    ELSE [g |-> ("start_time" :> t), fault |-> NoFault]

\* before_request() for request r when time.time() reads t: the attributes
\* it leaves on flask.g and the exception it raises, if any.
before_request(r, t) ==
    LET g1 == ("start_time" :> t)
    IN  IF r.is_json /\ get_json(r).raised
        THEN [g |-> g1, fault |-> get_json(r).error]
        ELSE [g |-> g1, fault |-> NoFault]

\* after_request(response) with flask.g = gw when time.time() reads t: the
\* response it returns and the duration it logs, or the AttributeError of
\* g.start_time.
after_request(response, gw, t) ==
    IF "start_time" \in DOMAIN gw
    THEN [resp |-> response, logged |-> <<t - gw.start_time>>, fault |-> NoFault]
    ELSE [resp |-> response, logged |-> <<>>, fault |-> AttributeError]

\* require_api_key(f): `inner` is what f yields, evaluated only if called.
require_api_key(r, inner) ==
    LET api_key == r.api_key
    IN  IF ~Truthy(api_key)
        THEN Returned(401, [error |-> "API key required"], FALSE)
        ELSE inner

(***************************************************************************)
(* Routes                                                                  *)
(***************************************************************************)
\* health_check(): t = <<t0, t1, t2>> are the readings of datetime.utcnow()
\* (line 197), of the left time.time() and of the time.time() passed as the
\* default of app.config.get (line 198), in the order Python evaluates them.
health_check(t, appcfg) ==
    LET start_time == IF "start_time" \in DOMAIN appcfg
                      THEN appcfg.start_time ELSE t[3]
    IN  Returned(200,
                 [status |-> "healthy", timestamp |-> t[1],
                  uptime |-> t[2] - start_time, version |-> "2.1.0",
                  checks |-> [database |-> "connected", cache |-> "connected",
                              disk_space |-> "ok"]],
                 TRUE)

home(t) ==
    Returned(200,
             [service |-> "Flask E-Commerce API", version |-> "2.1.0",
              endpoints |-> [health |-> "/health", products |-> "/api/products",
                             orders |-> "/api/orders", users |-> "/api/users"],
              documentation |-> "https://api.example.com/docs",
              timestamp |-> t[1]],
             TRUE)

products == <<[id |-> 1, name |-> "Laptop", price |-> "999.99"],
              [id |-> 2, name |-> "Mouse", price |-> "29.99"],
              [id |-> 3, name |-> "Keyboard", price |-> "79.99"]>>

get_products ==
    Returned(200, [products |-> products, count |-> Len(products)], TRUE)

\* A create_order without the Content-Type check.
content_type_unchecked(r) == TRUE

\* `request.is_json` of create_order
content_type_ok(r) == r.is_json

\* The for loop over required_fields from position i on.
RECURSIVE check_fields(_, _, _)
check_fields(data, i, t) ==
    IF i > Len(required_fields)
    THEN Returned(201, [order_id |-> "ORD-12345", status |-> "pending",
                        created_at |-> t[1]], TRUE)
    ELSE LET field == required_fields[i]
         IN  IF data.kind # "object" THEN Raised(TypeError, TRUE)
             ELSE IF field \notin data.members
                  THEN Returned(400, [error |-> <<"Missing field: ", field>>], TRUE)
                  ELSE check_fields(data, i + 1, t)

create_order(r, t) ==
    IF ~content_type_ok(r)
    THEN Returned(400, [error |-> "Content-Type must be application/json"], TRUE)
    ELSE LET parsed == get_json(r)
         IN  IF parsed.raised THEN Raised(parsed.error, TRUE)
             ELSE check_fields(parsed.data, 1, t)

\* The URL map the @app.route decorators build: path -> allowed methods.
url_map == [p \in {"/health", "/", "/api/products"} |-> {"GET"}]
           @@ ("/api/orders" :> {"POST"})

\* Flask's dispatch_request: routing, then the view function of the rule.
dispatch_request(r, t, appcfg) ==
    IF r.path \notin DOMAIN url_map THEN Raised(NotFound, FALSE)
    ELSE IF r.method \notin url_map[r.path] THEN Raised(MethodNotAllowed, FALSE)
    ELSE CASE r.path = "/health" -> health_check(t, appcfg)
           [] r.path = "/" -> home(t)
           [] r.path = "/api/products" -> require_api_key(r, get_products)
           [] r.path = "/api/orders" -> require_api_key(r, create_order(r, t))

(***************************************************************************)
(* Error handlers                                                          *)
(***************************************************************************)
handle_http_error(e) ==
    [status |-> e.code,
     body |-> [error |-> e.name, message |-> e.description, code |-> e.code]]

handle_generic_error(e) ==
    [status |-> 500,
     body |-> [error |-> "Internal Server Error", message |-> e.description]]

\* An application whose only error handler is the one for Exception.
handle_user_exception_generic_only(e) == handle_generic_error(e)

\* Flask's handle_user_exception: the handler registered for the nearest
\* class in the exception's MRO (HTTPException before Exception).
handle_user_exception(e) ==
    IF e.http THEN handle_http_error(e) ELSE handle_generic_error(e)

(***************************************************************************)
(* Bootstrap: the `if __name__ == '__main__':` block                       *)
(***************************************************************************)
AllRequired == Range(REQUIRED_VARS)

\* config = ConfigValidator.validate(); the KeyError is not caught.
Validate ==
    /\ run_as = "__main__" /\ proc = "start"
    /\ \E e \in Environments :
         LET out == validate(e)
         IN  /\ env' = e
             /\ validate_calls' = validate_calls + 1
             /\ IF out.raised
                THEN /\ proc' = "crashed"
                     /\ startup_error' = out.error
                     /\ config' = config
                ELSE /\ proc' = "validated"
                     /\ startup_error' = startup_error
                     /\ config' = out.config
    /\ UNCHANGED <<run_as, db, app_config, port_bound, exit_code, clock, pc,
                   req, g, fault, resp, runs, durations>>

\* db = DatabaseConnection(config['DATABASE_URL']); db.connect()
InitDb ==
    /\ proc = "validated"
    /\ IF "DATABASE_URL" \in DOMAIN config
       THEN /\ db' = [db_url |-> config["DATABASE_URL"], connected |-> TRUE]
            /\ proc' = "db"
            /\ startup_error' = startup_error
       ELSE /\ db' = db
            /\ proc' = "crashed"
            /\ startup_error' = [class |-> "KeyError", missing |-> <<"DATABASE_URL">>]
    /\ UNCHANGED <<run_as, env, config, validate_calls, app_config, port_bound,
                   exit_code, clock, pc, req, g, fault, resp, runs, durations>>

\* app.config['start_time'] = time.time()
StoreStartTime ==
    /\ proc = "db"
    /\ \E t \in clock..MaxClock :
         /\ app_config' = ("start_time" :> t)
         /\ clock' = t
    /\ proc' = "ready"
    /\ UNCHANGED <<run_as, env, config, startup_error, validate_calls, db,
                   port_bound, exit_code, pc, req, g, fault, resp, runs,
                   durations>>

\* sys.exit(0) when os.getenv("CI") == "true", app.run(...) otherwise
Startup ==
    /\ proc = "ready"
    /\ \E ci \in {None_, "true", "false"} :
         IF ci = "true"
         THEN /\ exit_code' = <<0>>
              /\ proc' = "exited"
              /\ port_bound' = port_bound
         ELSE /\ exit_code' = exit_code
              /\ proc' = "serving"
              /\ port_bound' = TRUE
    /\ UNCHANGED <<run_as, env, config, startup_error, validate_calls, db,
                   app_config, clock, pc, req, g, fault, resp, runs, durations>>

(***************************************************************************)
(* One request through Flask's full_dispatch_request, handled by worker w  *)
(***************************************************************************)
\* Requests reach the application once app.run serves, or through the WSGI
\* host that imported the module-level `app`.
CanServe == port_bound \/ run_as # "__main__"

NoRuns == [before |-> 0, view |-> 0, mapper |-> 0, after |-> 0]

\* A start time kept in one module-level variable shared by all requests.
store_g_global(gs, w, gw) == [x \in DOMAIN gs |-> gw]

\* flask.g is local to the context of the request: w's attributes only.
store_g(gs, w, gw) == [gs EXCEPT ![w] = gw]

Arrive(w, r) ==
    /\ CanServe /\ pc[w] = "idle"
    /\ pc' = [pc EXCEPT ![w] = "before"]
    /\ req' = [req EXCEPT ![w] = r]
    /\ UNCHANGED <<bootVars, clock, g, fault, resp, runs, durations>>

BeforeRequest(w) ==
    /\ pc[w] = "before"
    /\ \E t \in clock..MaxClock :
         LET out == before_request(req[w], t)
         IN  /\ clock' = t
             /\ g' = store_g(g, w, out.g)
             /\ fault' = [fault EXCEPT ![w] = out.fault]
             /\ pc' = [pc EXCEPT ![w] = IF out.fault # NoFault THEN "fault"
                                        ELSE "dispatch"]
    /\ runs' = [runs EXCEPT ![w].before = @ + 1]
    /\ UNCHANGED <<bootVars, req, resp, durations>>

Dispatch(w) ==
    /\ pc[w] = "dispatch"
    /\ \E t0 \in clock..MaxClock : \E t1 \in t0..MaxClock : \E t2 \in t1..MaxClock :
         LET out == dispatch_request(req[w], <<t0, t1, t2>>, app_config)
         IN  /\ clock' = t2
             /\ resp' = [resp EXCEPT ![w] = out.resp]
             /\ fault' = [fault EXCEPT ![w] = out.fault]
             /\ runs' = [runs EXCEPT ![w].view = IF out.view_called THEN @ + 1 ELSE @]
             /\ pc' = [pc EXCEPT ![w] = IF out.fault # NoFault THEN "fault"
                                        ELSE "after"]
    /\ UNCHANGED <<bootVars, req, g, durations>>

\* The raised exception goes to the registered error handler; it stays in
\* fault[w] as the record of what was raised.
HandleFault(w) ==
    /\ pc[w] = "fault"
    /\ resp' = [resp EXCEPT ![w] = handle_user_exception(fault[w])]
    /\ runs' = [runs EXCEPT ![w].mapper = @ + 1]
    /\ pc' = [pc EXCEPT ![w] = "after"]
    /\ UNCHANGED <<bootVars, clock, req, g, fault, durations>>

\* finalize_request: the after_request function.  If it raises, the
\* exception escapes to handle_exception, whose response passes through
\* after_request once more, where the failure is logged and dropped.
AfterRequest(w) ==
    /\ pc[w] = "after"
    /\ \E t \in clock..MaxClock :
         LET out == after_request(resp[w], g[w], t)
         IN  /\ clock' = t
             /\ durations' = [durations EXCEPT ![w] = @ \o out.logged]
             /\ IF out.fault = NoFault
                THEN /\ resp' = [resp EXCEPT ![w] = out.resp]
                     /\ runs' = [runs EXCEPT ![w].after = @ + 1]
                ELSE /\ resp' = [resp EXCEPT ![w] = handle_http_error(InternalServerError)]
                     /\ runs' = [runs EXCEPT ![w].after = @ + 2]
    /\ pc' = [pc EXCEPT ![w] = "done"]
    /\ UNCHANGED <<bootVars, req, g, fault>>

\* The response is sent and the request context is popped.
Finish(w) ==
    /\ pc[w] = "done"
    /\ pc' = [pc EXCEPT ![w] = "idle"]
    /\ req' = [req EXCEPT ![w] = NoRequest]
    /\ g' = [g EXCEPT ![w] = EmptyDict]
    /\ fault' = [fault EXCEPT ![w] = NoFault]
    /\ resp' = [resp EXCEPT ![w] = NoResponse]
    /\ runs' = [runs EXCEPT ![w] = NoRuns]
    /\ durations' = [durations EXCEPT ![w] = <<>>]
    /\ UNCHANGED <<bootVars, clock>>

(***************************************************************************)
(* Specifications                                                          *)
(***************************************************************************)
Init ==
    /\ run_as \in {"__main__", "app"}
    /\ proc = IF run_as = "__main__" THEN "start" ELSE "imported"
    /\ env = EmptyDict
    /\ config = EmptyDict
    /\ startup_error = NoError
    /\ validate_calls = 0
    /\ db = EmptyDict
    /\ app_config = EmptyDict
    /\ port_bound = FALSE
    /\ exit_code = <<>>
    /\ clock = 0
    /\ pc = [w \in Workers |-> "idle"]
    /\ req = [w \in Workers |-> NoRequest]
    /\ g = [w \in Workers |-> EmptyDict]
    /\ fault = [w \in Workers |-> NoFault]
    /\ resp = [w \in Workers |-> NoResponse]
    /\ runs = [w \in Workers |-> NoRuns]
    /\ durations = [w \in Workers |-> <<>>]

\* The requests of the two-worker specification.
ConcInputs ==
    {r \in Inputs :
        /\ r.api_key # ""
        /\ r.body.kind = "malformed" \/ r.body.members = Range(required_fields)
        /\ \/ r.method = "GET" /\ r.path = "/health"
           \/ r.method = "GET" /\ r.path = "/api/products" /\ ~r.is_json
           \/ r.method = "POST" /\ r.path = "/api/orders" /\ r.is_json}

\* One request at a time, every request of Inputs.
Next ==
    \/ Validate
    \/ InitDb
    \/ StoreStartTime
    \/ Startup
    \/ \E r \in Inputs : Arrive("w1", r)
    \/ BeforeRequest("w1")
    \/ Dispatch("w1")
    \/ HandleFault("w1")
    \/ AfterRequest("w1")
    \/ Finish("w1")

Spec == Init /\ [][Next]_vars

\* Requests handled concurrently by all workers, in any interleaving.
NextConc ==
    \/ Validate
    \/ InitDb
    \/ StoreStartTime
    \/ Startup
    \/ \E w \in Workers :
         \/ \E r \in ConcInputs : Arrive(w, r)
         \/ BeforeRequest(w)
         \/ Dispatch(w)
         \/ HandleFault(w)
         \/ AfterRequest(w)
         \/ Finish(w)

SpecConc == Init /\ [][NextConc]_vars

(***************************************************************************)
(* Properties                                                              *)
(***************************************************************************)
Missing == {v \in AllRequired : env[v] = None_ \/ env[v] = ""}

Validated ==
    /\ validate_calls = 1
    /\ startup_error = NoError
    /\ DOMAIN env = AllRequired
    /\ \A v \in AllRequired : Truthy(env[v])

Handling == \E w \in Workers : pc[w] # "idle"

IsRoute(r, method, path) == r.method = method /\ r.path = path

Protected(r) ==
    IsRoute(r, "GET", "/api/products") \/ IsRoute(r, "POST", "/api/orders")

Unauthorized == [status |-> 401, body |-> [error |-> "API key required"]]

\* A response without its time-derived fields.
Stable(rsp) ==
    [status |-> rsp.status,
     body |-> [k \in DOMAIN rsp.body \ {"timestamp", "uptime", "created_at"}
                 |-> rsp.body[k]]]

\* The response of AuthGate, handler and ErrorMapper without the hooks.
NoHooks(r) ==
    LET out == dispatch_request(r, <<0, 0, 0>>, EmptyDict)
    IN  IF out.fault # NoFault THEN handle_user_exception(out.fault)
        ELSE out.resp

\* The response to r when r is the only request the application ever sees.
Alone(r) ==
    LET pre == before_request(r, 0)
    IN  IF pre.fault # NoFault THEN handle_user_exception(pre.fault)
        ELSE NoHooks(r)

\* C1: once ConfigValidator.validate has run, it has raised if and only if
\* some required variable is unset or empty; the error names exactly those
\* variables, each once; and without an error the returned config has
\* exactly the four names, each with its environment value.
C1_ValidateNamesMissing ==
    validate_calls = 1 =>
        /\ (startup_error # NoError) <=> (Missing # {})
        /\ startup_error # NoError =>
             /\ startup_error.class = "KeyError"
             /\ Range(startup_error.missing) = Missing
             /\ Len(startup_error.missing) = Cardinality(Missing)
             /\ config = EmptyDict
        /\ startup_error = NoError =>
             /\ DOMAIN config = AllRequired
             /\ \A v \in AllRequired : config[v] = env[v]

\* C1 witness: validate raised with one variable unset and another empty.
C1_Witness ==
    /\ validate_calls = 1
    /\ env["SECRET_KEY"] = None_ /\ env["REDIS_URL"] = ""
    /\ startup_error.missing = <<"SECRET_KEY", "REDIS_URL">>

C3_Claim ==
    \A w \in Workers :
        (port_bound /\ pc[w] = "done" /\ Protected(req[w])) =>
            /\ (runs[w].view = 1) <=> Truthy(req[w].api_key)
            /\ req[w].api_key = None_ => resp[w] = Unauthorized
            /\ (IsRoute(req[w], "GET", "/api/products") /\ Truthy(req[w].api_key)) =>
                 /\ resp[w].status = 200
                 /\ DOMAIN resp[w].body = {"products", "count"}
                 /\ Len(resp[w].body.products) = 3
                 /\ resp[w].body.count = 3

\* The required fields absent from a parsed body, by position.
Absent(body) ==
    {i \in DOMAIN required_fields : required_fields[i] \notin body.members}

Min(S) == CHOOSE i \in S : \A j \in S : i <= j

\* C4 as stated, for the requests the server started by app.run handles:
\* POST /api/orders with a key and a JSON content type, for
\* every body that parses: 400 naming the first absent field, or 201 with
\* status "pending" and a non-empty order_id when all three are present.
C4_Claim ==
    \A w \in Workers :
        (/\ port_bound
         /\ pc[w] = "done" /\ IsRoute(req[w], "POST", "/api/orders")
         /\ Truthy(req[w].api_key) /\ req[w].is_json
         /\ req[w].body.kind # "malformed") =>
            IF Absent(req[w].body) # {}
            THEN resp[w] =
                   [status |-> 400,
                    body |-> [error |-> <<"Missing field: ",
                                          required_fields[Min(Absent(req[w].body))]>>]]
            ELSE /\ resp[w].status = 201
                 /\ resp[w].body.status = "pending"
                 /\ resp[w].body.order_id # ""

\* C5: POST /api/orders with a non-JSON content type: with a key, 400 and
\* exactly {"error": "Content-Type must be application/json"} whatever the
\* body, from the handler and with no exception; without a key, the 401 of
\* the auth gate, which runs first.
C5_NonJsonOrder ==
    \A w \in Workers :
        (/\ pc[w] = "done" /\ IsRoute(req[w], "POST", "/api/orders")
         /\ ~req[w].is_json) =>
            IF Truthy(req[w].api_key)
            THEN /\ resp[w] = [status |-> 400,
                               body |-> [error |-> "Content-Type must be application/json"]]
                 /\ runs[w].view = 1
                 /\ fault[w] = NoFault
            ELSE /\ resp[w] = Unauthorized
                 /\ runs[w].view = 0

\* C5 witness: a complete order sent with a non-JSON content type.
C5_Witness ==
    /\ port_bound
    /\ pc["w1"] = "done" /\ IsRoute(req["w1"], "POST", "/api/orders")
    /\ ~req["w1"].is_json /\ Truthy(req["w1"].api_key)
    /\ req["w1"].body = [kind |-> "object", members |-> Range(required_fields)]
    /\ resp["w1"].status = 400

\* C6 as stated: every response to GET /health has status "healthy" and an
\* uptime of at least zero.
C6_Claim ==
    \A w \in Workers :
        (pc[w] = "done" /\ IsRoute(req[w], "GET", "/health")) =>
            /\ resp[w].status = 200
            /\ {"status", "uptime"} \subseteq DOMAIN resp[w].body
            /\ resp[w].body.status = "healthy"
            /\ resp[w].body.uptime >= 0

\* C7: for every request, before_request and after_request each run at
\* most once; after_request has run exactly when the request is done, and
\* runs only once before_request has set g.start_time and a response
\* exists, also when the auth gate short-circuited, a handler raised or
\* before_request raised; the logged duration is the time of after_request
\* minus the start time of this request, and is not negative.
C7_PostHookOnceAfterPreHook ==
    \A w \in Workers :
        /\ runs[w].before <= 1 /\ runs[w].after <= 1
        /\ (runs[w].after = 1) <=> (pc[w] = "done")
        /\ pc[w] \in {"fault", "after", "done"} =>
             /\ runs[w].before = 1
             /\ "start_time" \in DOMAIN g[w]
        /\ pc[w] \in {"after", "done"} => resp[w] # NoResponse
        /\ pc[w] = "done" =>
             /\ Len(durations[w]) = 1
             /\ durations[w][1] = clock - g[w].start_time
             /\ durations[w][1] >= 0
        /\ pc[w] # "done" => durations[w] = <<>>

\* C7 witness: before_request itself raised, and after_request still ran
\* once with the start time set.
C7_Witness ==
    /\ port_bound
    /\ pc["w1"] = "done" /\ fault["w1"] = BadRequest
    /\ runs["w1"] = [before |-> 1, view |-> 0, mapper |-> 1, after |-> 1]
    /\ durations["w1"] = <<1>>

\* C8 as stated, for the requests the server started by app.run handles:
\* the response of the pipeline with the hooks equals, time
\* fields aside, the response of AuthGate, handler and ErrorMapper alone.
C8_Claim ==
    \A w \in Workers :
        (port_bound /\ pc[w] = "done") =>
            Stable(resp[w]) = Stable(NoHooks(req[w]))

\* C9: a raised exception goes through the error mapper exactly once and
\* no stage is repeated; an HTTPException with code c yields status c and
\* {error: name, message: description, code: c}, never 500; any other
\* exception yields 500 and {error: "Internal Server Error", message:
\* str(e)}; without an exception the error mapper does not run.
C9_UniformEnvelope ==
    \A w \in Workers :
        /\ runs[w].before <= 1 /\ runs[w].view <= 1 /\ runs[w].mapper <= 1
        /\ (fault[w] = NoFault) => runs[w].mapper = 0
        /\ (fault[w] # NoFault /\ pc[w] \in {"after", "done"}) =>
             /\ runs[w].mapper = 1
             /\ IF fault[w].class \in {"BadRequest", "NotFound", "MethodNotAllowed"}
                THEN /\ resp[w].status = fault[w].code
                     /\ resp[w].status \in {400, 404, 405}
                     /\ resp[w].body = [error |-> fault[w].name,
                                        message |-> fault[w].description,
                                        code |-> fault[w].code]
                ELSE /\ resp[w].status = 500
                     /\ resp[w].body = [error |-> "Internal Server Error",
                                        message |-> fault[w].description]

\* C9 witness: an exception that is no HTTPException was mapped to 500.
C9_Witness ==
    /\ port_bound
    /\ pc["w1"] = "done" /\ fault["w1"] = TypeError
    /\ resp["w1"].status = 500 /\ runs["w1"].mapper = 1

\* A step of request handling: some worker moved.
RequestStep == \E w \in Workers : pc'[w] # pc[w]

\* C10: under any interleaving, a step of request handling leaves the
\* configuration, the database object, app.config and the bootstrap state
\* unchanged; it changes the request, flask.g, exception, response and log
\* of the stepping worker only; and a finished request has a start time in
\* its own flask.g and the response that request gets when handled alone
\* (time fields aside).
C10_RequestsIndependent ==
    [][RequestStep =>
        /\ UNCHANGED bootVars
        /\ \A w \in Workers :
             /\ pc'[w] = pc[w] =>
                  /\ req'[w] = req[w] /\ g'[w] = g[w] /\ fault'[w] = fault[w]
                  /\ resp'[w] = resp[w] /\ runs'[w] = runs[w]
                  /\ durations'[w] = durations[w]
             /\ (pc[w] \in {"dispatch", "fault", "after"}) => g'[w] = g[w]
             /\ pc'[w] = "done" =>
                  /\ "start_time" \in DOMAIN g'[w]
                  /\ Stable(resp'[w]) = Stable(Alone(req'[w]))]_vars

\* C10 witness: two requests in flight at once, started at different times.
C10_Witness ==
    /\ port_bound
    /\ pc["w1"] = "done" /\ pc["w2"] = "dispatch"
    /\ g["w1"].start_time # g["w2"].start_time
    /\ req["w1"] # req["w2"]

====
